---------------------------- MODULE Spec2Model ----------------------------
(***************************************************************************)
(* Gift lifecycle of the cadeautjes backend: the handlers of              *)
(* routes/gifts.ts over the tables of models/database.ts, and the          *)
(* partner-side redeem transition.                                         *)
(*                                                                         *)
(* Every handler is an async function; each `await` is a point where the   *)
(* handler is suspended and another request's handler may run, so each     *)
(* awaited statement is one action of the model and a request's position   *)
(* is kept in reqs[s].pc.  The store has no transaction around a handler:  *)
(* every statement is applied to the tables on its own.                    *)
(*                                                                         *)
(* Strings are modelled as sequences of tokens: a v4 uuid is the one-token *)
(* string <<n>>, and a template literal is the concatenation it performs.  *)
(* Money is in cents (every catalogue price is a multiple of 0.25, so the  *)
(* handler's floating point sums are exact).                               *)
(***************************************************************************)
EXTENDS Integers, Sequences, FiniteSets, TLC

\* ------------------------------------------------------------------ bounds
NumUsers == 2
NumGiftTypes == 2
MaxItems == 2
MaxQuantity == 1
MaxPurchases == 1
MaxRepeat == 2
MaxSends == 2
NumSlots == 2

Slots == 1..NumSlots

\* ---------------------------------------------------------------- catalogue
\* insertSampleData: the rows of gift_types in insertion order (ids 1..13).
SamplePrices == <<350, 450, 275, 750, 325, 375, 850, 225, 1250, 700, 550, 1000, 1200>>
SampleNames == <<"Biertje", "Wijntje", "Koffie", "Cocktail", "Pizza Slice", "Taartje",
                 "Lunch", "IJsje", "Bioscoopkaartje", "Minigolf", "Bowling Game",
                 "Boodschappen", "Bloemen">>
SampleCategories == <<"drinks", "drinks", "drinks", "drinks", "food", "food", "food",
                      "food", "entertainment", "entertainment", "entertainment",
                      "lifestyle", "lifestyle">>

GiftTypeIds == 1..NumGiftTypes
\* Ids a request may name: 0 (falsy), the catalogue, and one id with no row.
RequestGiftIds == 0..(NumGiftTypes + 1)
\* The numbers an item's quantity may be.
Quantities == (0 - 1)..MaxQuantity

\* The elements of req.body.items, which the handler takes as they come:
\* { giftTypeId, quantity }, an item whose quantity is null or absent, and
\* null in place of an item.
NullItem == [null |-> TRUE]
Item == [giftTypeId : RequestGiftIds \ {0}, quantity : Quantities]
            \cup [giftTypeId : RequestGiftIds \ {0}]
            \cup {NullItem}
\* item.quantity is a number (not null, not undefined).
HasQuantity(item) == "quantity" \in DOMAIN item
\* The item lists of at most n items, and the first n accounts.
ItemLists(n) == UNION {[1..k -> Item] : k \in 0..n}
Users(n) == 1..n

VARIABLES
    active,        \* gift_types.active, by gift type id
    user_gifts,    \* table user_gifts, rows in rowid order
    transactions,  \* table transactions, rows in insertion order
    purchases,     \* table purchases, rows in insertion order
    reqs,          \* the requests being handled, by slot
    device_id,     \* users.device_id, by user id ("" is NULL)
    uuids,         \* the v4 uuids generated so far: which handler drew each
    clock          \* the store's CURRENT_TIMESTAMP: the seconds with a stamp

vars == <<active, user_gifts, transactions, purchases, device_id, reqs, uuids, clock>>

\* ------------------------------------------------------------------ helpers
RECURSIVE SumSeq(_)
SumSeq(s) == IF s = <<>> THEN 0 ELSE Head(s) + SumSeq(Tail(s))

\* uuidv4(): a value no earlier call returned.
Uuid(n) == <<n>>

\* Mutant: the code carries a fixed token, not the transaction id.
QrCodeConstant(transactionId) == <<"CADEAUTJE-", 0>>

\* `CADEAUTJE-${transactionId}`
QrCodeData(transactionId) == <<"CADEAUTJE-">> \o transactionId

\* 'SELECT * FROM gift_types WHERE id = ? AND active = 1'
ActiveGiftType(id) == id \in GiftTypeIds /\ active[id]

\* rows of user_gifts WHERE user_id = ? AND gift_type_id = ?
RowsOf(ug, u, g) == {k \in 1..Len(ug) : ug[k].user_id = u /\ ug[k].gift_type_id = g}

\* The balance of (u, g): the units held in all rows of the pair.
Balance(ug, u, g) ==
    SumSeq([k \in 1..Len(ug) |->
              IF ug[k].user_id = u /\ ug[k].gift_type_id = g THEN ug[k].quantity ELSE 0])

\* Mutant: SET quantity = ? in place of quantity + ?.
UpdateQuantitySet(ug, u, g, d) ==
    [k \in 1..Len(ug) |->
        IF ug[k].user_id = u /\ ug[k].gift_type_id = g
        THEN [ug[k] EXCEPT !.quantity = d]
        ELSE ug[k]]

\* Mutant: the WHERE clause names the gift type only.
UpdateQuantityAnyAccount(ug, u, g, d) ==
    [k \in 1..Len(ug) |->
        IF ug[k].gift_type_id = g
        THEN [ug[k] EXCEPT !.quantity = @ + d]
        ELSE ug[k]]

\* 'UPDATE user_gifts SET quantity = quantity + ? WHERE user_id = ? AND gift_type_id = ?'
UpdateQuantity(ug, u, g, d) ==
    [k \in 1..Len(ug) |->
        IF ug[k].user_id = u /\ ug[k].gift_type_id = g
        THEN [ug[k] EXCEPT !.quantity = @ + d]
        ELSE ug[k]]

\* 'INSERT INTO user_gifts (user_id, gift_type_id, quantity) VALUES (?, ?, ?)'
InsertUserGift(ug, u, g, q) ==
    Append(ug, [user_id |-> u, gift_type_id |-> g, quantity |-> q])

\* A statement of the store either runs or throws (the handlers' catch).
Outcomes == {"ok", "throw"}

Snapshot == [user_gifts |-> user_gifts, transactions |-> transactions,
             purchases |-> purchases]

IdleReq == [op |-> "none", pc |-> "idle", userId |-> 0, items |-> <<>>, i |-> 0,
            totalAmount |-> 0, purchaseId |-> <<>>, existingInventory |-> FALSE,
            giftTypeId |-> 0, transactionId |-> <<>>, qrCodeData |-> <<>>,
            code |-> <<>>, deviceId |-> "", status |-> 0, error |-> "",
            fault |-> FALSE, body |-> <<>>, transaction |-> <<>>, inventory |-> <<>>,
            pre |-> [user_gifts |-> <<>>, transactions |-> <<>>, purchases |-> <<>>]]

InFlight == {s \in Slots : reqs[s].pc \notin {"idle", "done"}}

\* A request is taken by the lowest slot that handles none, while fewer than
\* `limit` requests are being handled.
Free(s, limit) ==
    /\ reqs[s].pc \in {"idle", "done"}
    /\ \A r \in Slots : r < s => reqs[r].pc \notin {"idle", "done"}
    /\ Cardinality(InFlight) < limit

\* A request that draws a uuid is accepted only while its handler's share of
\* uuids (np for purchases) is not exhausted (sends being handled may still
\* draw theirs).
Drawn(op) == Cardinality({k \in 1..Len(uuids) : uuids[k] = op})
Pending == Cardinality({s \in Slots : reqs[s].pc \in {"check", "details", "generate"}})
CanPurchase(np) == Drawn("purchase") < np
CanSend == Drawn("send") + Pending < MaxSends

\* The slot takes request r; answers already delivered are forgotten.
Accept(s, r) ==
    [x \in Slots |-> IF x = s THEN r
                     ELSE IF reqs[x].pc = "done" THEN IdleReq ELSE reqs[x]]

\* res.status(c).json({ error: e }) and return
Respond(s, c, e) == [reqs EXCEPT ![s].pc = "done", ![s].status = c, ![s].error = e]

\* catch (error) { res.status(500).json({ error: 'Internal server error' }) }
\* `fault` tells a failure of the store (or of the QR encoder) from an
\* exception the request's own values raise: a violated constraint, a property
\* read of null.
Caught(s, fault) == [reqs EXCEPT ![s].pc = "done", ![s].status = 500,
                                 ![s].error = "Internal server error",
                                 ![s].fault = fault]

\* CURRENT_TIMESTAMP when a statement stamps a row: the second of the last
\* stamp (created_at or redeemed_at) or a later one.  Only seconds in which a
\* row was stamped are counted, so the clock moves on only from a second that
\* holds a stamp.
Now ==
    IF \E k \in 1..Len(transactions) :
           transactions[k].created_at = clock \/ transactions[k].redeemed_at = clock
    THEN {clock, clock + 1} ELSE {clock}

\* The store is the file ./cadeautjes.db, opened (not recreated) by the
\* constructor: the catalogue rows exist, each with its active flag as the
\* catalogue's maintenance left it (DEFAULT 1); the other tables are empty.
Init ==
    /\ active \in [GiftTypeIds -> BOOLEAN]
    /\ user_gifts = <<>>
    /\ transactions = <<>>
    /\ purchases = <<>>
    /\ device_id = [u \in Users(NumUsers) |-> ""]
    /\ reqs = [s \in Slots |-> IdleReq]
    /\ uuids = <<>>
    /\ clock = 1

\* ----------------------------------------------------------------- purchase
\* router.post('/purchase'): lines 26-39, up to the first await.
PurchaseStart(s, limit, nu, ni, np) ==
    /\ Free(s, limit)
    /\ \E u \in Users(nu), items \in ItemLists(ni) :
        LET r == [IdleReq EXCEPT !.op = "purchase", !.userId = u, !.items = items,
                                 !.pre = Snapshot]
        IN IF Len(items) = 0
           THEN /\ reqs' = Accept(s, [r EXCEPT !.pc = "done", !.status = 400,
                                               !.error = "Items are required"])
                /\ uuids' = uuids
           ELSE /\ CanPurchase(np)
                /\ reqs' = Accept(s, [r EXCEPT !.pc = "getGiftType", !.i = 1,
                                               !.purchaseId = Uuid(Len(uuids) + 1)])
                /\ uuids' = Append(uuids, "purchase")
    /\ UNCHANGED <<active, device_id, user_gifts, transactions, purchases, clock>>

\* lines 43-52: look the item's gift type up, reject or add to the total.
\* Reading item.giftTypeId of null is a TypeError, which the catch answers.
\* price * null is 0; price * undefined is NaN, a total that is never used,
\* since the item's write (PurchaseUpsert) throws.
PurchaseGetGiftType(s) ==
    /\ reqs[s].pc = "getGiftType"
    /\ LET item == reqs[s].items[reqs[s].i] IN
       \E o \in Outcomes :
        /\ reqs' = IF item = NullItem THEN Caught(s, FALSE)
                   ELSE IF o = "throw" THEN Caught(s, TRUE)
                   ELSE IF ~ActiveGiftType(item.giftTypeId)
                   THEN Respond(s, 400, "Invalid gift type")
                   ELSE [reqs EXCEPT ![s].pc = "getExisting",
                                     ![s].totalAmount =
                                         IF HasQuantity(item)
                                         THEN @ + SamplePrices[item.giftTypeId]
                                                    * item.quantity
                                         ELSE @]
    /\ UNCHANGED <<active, device_id, user_gifts, transactions, purchases, uuids, clock>>

\* lines 55-58: SELECT the pair's inventory row.
PurchaseGetExisting(s) ==
    /\ reqs[s].pc = "getExisting"
    /\ LET item == reqs[s].items[reqs[s].i] IN
       \E o \in Outcomes :
        /\ reqs' = IF o = "throw" THEN Caught(s, TRUE)
                   ELSE [reqs EXCEPT ![s].pc = "upsert",
                                     ![s].existingInventory =
                                         RowsOf(user_gifts, reqs[s].userId,
                                                item.giftTypeId) # {}]
    /\ UNCHANGED <<active, device_id, user_gifts, transactions, purchases, uuids, clock>>

\* lines 60-71: UPDATE the row or INSERT one, then the next item or the receipt.
\* quantity is NOT NULL: a statement bound to a null or absent quantity throws
\* and writes nothing.
PurchaseUpsert(s) ==
    /\ reqs[s].pc = "upsert"
    /\ LET item == reqs[s].items[reqs[s].i] IN
       \E o \in Outcomes :
        /\ IF o = "throw" \/ ~HasQuantity(item)
           THEN /\ reqs' = Caught(s, o = "throw")
                /\ user_gifts' = user_gifts
           ELSE /\ user_gifts' =
                     IF reqs[s].existingInventory
                     THEN UpdateQuantity(user_gifts, reqs[s].userId, item.giftTypeId,
                                         item.quantity)
                     ELSE InsertUserGift(user_gifts, reqs[s].userId, item.giftTypeId,
                                         item.quantity)
                /\ reqs' = IF reqs[s].i < Len(reqs[s].items)
                           THEN [reqs EXCEPT ![s].pc = "getGiftType", ![s].i = @ + 1]
                           ELSE [reqs EXCEPT ![s].pc = "record"]
    /\ UNCHANGED <<active, device_id, transactions, purchases, uuids, clock>>

\* lines 73-84: INSERT INTO purchases and answer.
PurchaseRecord(s) ==
    /\ reqs[s].pc = "record"
    /\ \E o \in Outcomes :
        /\ IF o = "throw" \/ \E k \in 1..Len(purchases) : purchases[k].id = reqs[s].purchaseId
           THEN /\ reqs' = Caught(s, o = "throw")
                /\ purchases' = purchases
           ELSE /\ purchases' = Append(purchases,
                                       [id |-> reqs[s].purchaseId,
                                        user_id |-> reqs[s].userId,
                                        items |-> reqs[s].items,
                                        total_amount |-> reqs[s].totalAmount])
                /\ reqs' = Respond(s, 200, "")
    /\ UNCHANGED <<active, device_id, user_gifts, transactions, uuids, clock>>

\* --------------------------------------------------------------------- send
\* router.post('/send'): lines 127-137, up to the first await.
SendStart(s, limit, nu) ==
    /\ Free(s, limit)
    /\ \E u \in Users(nu), g \in RequestGiftIds :
        LET r == [IdleReq EXCEPT !.op = "send", !.userId = u, !.giftTypeId = g,
                                 !.pre = Snapshot]
        IN IF g = 0
           THEN reqs' = Accept(s, [r EXCEPT !.pc = "done", !.status = 400,
                                           !.error = "Gift type ID is required"])
           ELSE /\ CanSend
                /\ reqs' = Accept(s, [r EXCEPT !.pc = "check"])
    /\ UNCHANGED <<active, device_id, user_gifts, transactions, purchases, uuids, clock>>

\* Mutant: the check accepts a row with quantity >= 0.
SendCheckAllowsZero(s) ==
    /\ reqs[s].pc = "check"
    /\ \E o \in Outcomes :
        /\ reqs' = IF o = "throw" THEN Caught(s, TRUE)
                   ELSE IF \E k \in RowsOf(user_gifts, reqs[s].userId, reqs[s].giftTypeId) :
                              user_gifts[k].quantity >= 0
                   THEN [reqs EXCEPT ![s].pc = "details"]
                   ELSE Respond(s, 400, "You do not have this gift available")
    /\ UNCHANGED <<active, device_id, user_gifts, transactions, purchases, uuids, clock>>

\* lines 139-147: a row of the pair with quantity > 0, or 400.
SendCheck(s) ==
    /\ reqs[s].pc = "check"
    /\ \E o \in Outcomes :
        /\ reqs' = IF o = "throw" THEN Caught(s, TRUE)
                   ELSE IF \E k \in RowsOf(user_gifts, reqs[s].userId, reqs[s].giftTypeId) :
                              user_gifts[k].quantity > 0
                   THEN [reqs EXCEPT ![s].pc = "details"]
                   ELSE Respond(s, 400, "You do not have this gift available")
    /\ UNCHANGED <<active, device_id, user_gifts, transactions, purchases, uuids, clock>>

\* lines 149-153: SELECT the gift's details.
SendGetGiftType(s) ==
    /\ reqs[s].pc = "details"
    /\ \E o \in Outcomes :
        reqs' = IF o = "throw" THEN Caught(s, TRUE)
                ELSE [reqs EXCEPT ![s].pc = "generate"]
    /\ UNCHANGED <<active, device_id, user_gifts, transactions, purchases, uuids, clock>>

\* lines 155-160: the transaction id is drawn, the QR code data built from it
\* and the QR image asked for; the handler waits for the image.
SendGenerate(s) ==
    /\ reqs[s].pc = "generate"
    /\ reqs' = [reqs EXCEPT ![s].pc = "insert",
                            ![s].transactionId = Uuid(Len(uuids) + 1),
                            ![s].qrCodeData = QrCodeData(Uuid(Len(uuids) + 1))]
    /\ uuids' = Append(uuids, "send")
    /\ UNCHANGED <<active, device_id, user_gifts, transactions, purchases, clock>>

\* lines 160-166: the wait for the QR image ends, and INSERT INTO transactions
\* (id PRIMARY KEY, qr_code UNIQUE, status DEFAULT 'sent', created_at DEFAULT
\* CURRENT_TIMESTAMP, redeemed_at NULL).  A rejected image and a failed INSERT
\* both reach the catch with nothing written.
SendInsert(s) ==
    /\ reqs[s].pc = "insert"
    /\ \E o \in Outcomes, now \in Now :
        /\ IF \/ o = "throw"
              \/ \E k \in 1..Len(transactions) :
                    \/ transactions[k].id = reqs[s].transactionId
                    \/ transactions[k].qr_code = reqs[s].qrCodeData
           THEN /\ reqs' = Caught(s, o = "throw")
                /\ transactions' = transactions
                /\ clock' = clock
           ELSE /\ transactions' = Append(transactions,
                                          [id |-> reqs[s].transactionId,
                                           sender_id |-> reqs[s].userId,
                                           gift_type_id |-> reqs[s].giftTypeId,
                                           status |-> "sent",
                                           qr_code |-> reqs[s].qrCodeData,
                                           created_at |-> now,
                                           redeemed_at |-> 0])
                /\ clock' = now
                /\ reqs' = [reqs EXCEPT ![s].pc = "decrement"]
    /\ UNCHANGED <<active, device_id, user_gifts, purchases, uuids>>

\* Mutant: the entry is deleted when the debit empties it.
SendDecrementDeletes(s) ==
    /\ reqs[s].pc = "decrement"
    /\ \E o \in Outcomes :
        /\ IF o = "throw"
           THEN /\ reqs' = Caught(s, TRUE)
                /\ user_gifts' = user_gifts
           ELSE /\ user_gifts' =
                     LET ug == UpdateQuantity(user_gifts, reqs[s].userId,
                                              reqs[s].giftTypeId, 0 - 1)
                         Live(r) == r.quantity # 0
                     IN SelectSeq(ug, Live)
                /\ reqs' = Respond(s, 200, "")
    /\ UNCHANGED <<active, device_id, transactions, purchases, uuids, clock>>

\* lines 168-184: UPDATE user_gifts SET quantity = quantity - 1, and answer.
SendDecrement(s) ==
    /\ reqs[s].pc = "decrement"
    /\ \E o \in Outcomes :
        /\ IF o = "throw"
           THEN /\ reqs' = Caught(s, TRUE)
                /\ user_gifts' = user_gifts
           ELSE /\ user_gifts' = UpdateQuantity(user_gifts, reqs[s].userId,
                                                reqs[s].giftTypeId, 0 - 1)
                /\ reqs' = Respond(s, 200, "")
    /\ UNCHANGED <<active, device_id, transactions, purchases, uuids, clock>>

\* ------------------------------------------------------------------- redeem
\* 'POST /api/partners/redeem': the handler lives in routes/partners, which is
\* not among the sources; it is modelled from the design's contract
\* redeem(redemptionCodeOrTransactionId).
UnknownCode == Uuid(0)
RedeemCodes == {transactions[k].id : k \in 1..Len(transactions)}
               \cup {transactions[k].qr_code : k \in 1..Len(transactions)}
               \cup {UnknownCode}

\* The rows a code resolves to: by redemption code or by transaction id.
Resolve(tx, code) == {k \in 1..Len(tx) : tx[k].qr_code = code \/ tx[k].id = code}

RedeemStart(s, limit) ==
    /\ Free(s, limit)
    /\ \E code \in RedeemCodes :
        reqs' = Accept(s, [IdleReq EXCEPT !.op = "redeem", !.code = code,
                                          !.pc = "redeem", !.pre = Snapshot])
    /\ UNCHANGED <<active, device_id, user_gifts, transactions, purchases, uuids, clock>>

\* Mutant: the write is not conditional on the status.
RedeemUnconditional(s) ==
    /\ reqs[s].pc = "redeem"
    /\ LET hit == Resolve(transactions, reqs[s].code) IN
       IF hit = {}
       THEN /\ reqs' = Respond(s, 404, "NotFound")
            /\ UNCHANGED <<transactions, clock>>
       ELSE LET k == CHOOSE k \in hit : TRUE IN
            /\ \E now \in Now :
                 /\ transactions' = [transactions EXCEPT ![k].status = "redeemed",
                                                         ![k].redeemed_at = now]
                 /\ clock' = now
            /\ reqs' = Respond(s, 200, "")
    /\ UNCHANGED <<active, device_id, user_gifts, purchases, uuids>>

\* Mutant: a redeemed transaction is refused but stamped again.
RedeemRestamps(s) ==
    /\ reqs[s].pc = "redeem"
    /\ LET hit == Resolve(transactions, reqs[s].code) IN
       IF hit = {}
       THEN /\ reqs' = Respond(s, 404, "NotFound")
            /\ UNCHANGED <<transactions, clock>>
       ELSE LET k == CHOOSE k \in hit : TRUE IN
            /\ \E now \in Now :
                 /\ transactions' = [transactions EXCEPT ![k].status = "redeemed",
                                                         ![k].redeemed_at = now]
                 /\ clock' = now
            /\ reqs' = IF transactions[k].status = "redeemed"
                       THEN Respond(s, 410, "AlreadyRedeemed")
                       ELSE Respond(s, 200, "")
    /\ UNCHANGED <<active, device_id, user_gifts, purchases, uuids>>

\* One conditional write: to 'redeemed' only where the status is still the
\* issued one, stamping redeemed_at.
Redeem(s) ==
    /\ reqs[s].pc = "redeem"
    /\ LET hit == Resolve(transactions, reqs[s].code) IN
       IF hit = {}
       THEN /\ reqs' = Respond(s, 404, "NotFound")
            /\ UNCHANGED <<transactions, clock>>
       ELSE LET k == CHOOSE k \in hit : TRUE IN
            IF transactions[k].status = "redeemed"
            THEN /\ reqs' = Respond(s, 410, "AlreadyRedeemed")
                 /\ UNCHANGED <<transactions, clock>>
            ELSE /\ \E now \in Now :
                      /\ transactions' = [transactions EXCEPT ![k].status = "redeemed",
                                                              ![k].redeemed_at = now]
                      /\ clock' = now
                 /\ reqs' = Respond(s, 200, "")
    /\ UNCHANGED <<active, device_id, user_gifts, purchases, uuids>>

\* ------------------------------------------------------------------ queries
\* The rank of each sample name and category in SQLite's BINARY collation.
NameRank == <<1, 13, 8, 6, 11, 12, 9, 7, 2, 10, 5, 4, 3>>
CategoryRank == <<1, 1, 1, 1, 3, 3, 3, 3, 2, 2, 2, 4, 4>>
RecentLimit == 10

\* The rows S in ascending order of key (keys are distinct).
OrderBy(S, key) ==
    CHOOSE q \in [1..Cardinality(S) -> S] :
        \A i, j \in 1..Cardinality(S) : i < j => key[q[i]] < key[q[j]]

\* FROM user_gifts ug JOIN gift_types gt ... WHERE ug.user_id = ? AND ug.quantity > 0
Held(ug, u) == {k \in 1..Len(ug) : /\ ug[k].user_id = u
                                    /\ ug[k].quantity > 0
                                    /\ ug[k].gift_type_id \in GiftTypeIds}

InventoryRow(ug, k) ==
    [gift_type_id |-> ug[k].gift_type_id,
     name |-> SampleNames[ug[k].gift_type_id],
     price |-> SamplePrices[ug[k].gift_type_id],
     category |-> SampleCategories[ug[k].gift_type_id],
     quantity |-> ug[k].quantity]

\* /inventory: ORDER BY gt.category, gt.name
InventoryQuery(ug, u) ==
    LET key == [k \in Held(ug, u) |->
                   (CategoryRank[ug[k].gift_type_id] * 100
                    + NameRank[ug[k].gift_type_id]) * 100 + k]
        q == OrderBy(Held(ug, u), key)
    IN [i \in 1..Len(q) |-> InventoryRow(ug, q[i])]

\* /sync: ORDER BY ug.quantity DESC, gt.name
SyncQuery(ug, u) ==
    LET key == [k \in Held(ug, u) |->
                   (0 - ug[k].quantity) * 10000 + NameRank[ug[k].gift_type_id] * 100 + k]
        q == OrderBy(Held(ug, u), key)
    IN [i \in 1..Len(q) |-> InventoryRow(ug, q[i])]

\* FROM transactions t JOIN gift_types gt ... WHERE t.sender_id = ?
\* ORDER BY t.created_at DESC: the answers the query may give.  Rows created
\* in the same second come in any order.
SentOrders(tx, u) ==
    LET S == {k \in 1..Len(tx) : tx[k].sender_id = u /\ tx[k].gift_type_id \in GiftTypeIds}
    IN {q \in [1..Cardinality(S) -> S] :
          \A i, j \in 1..Cardinality(S) :
              i < j => /\ q[i] # q[j]
                       /\ tx[q[i]].created_at >= tx[q[j]].created_at}

\* /sent: the columns of the answer's rows.
SentQuery(tx, u) ==
    LET orders == SentOrders(tx, u)
    IN {[i \in 1..Len(q) |->
           [id |-> tx[q[i]].id, status |-> tx[q[i]].status,
            redeemed_at |-> tx[q[i]].redeemed_at,
            name |-> SampleNames[tx[q[i]].gift_type_id],
            price |-> SamplePrices[tx[q[i]].gift_type_id]]] : q \in orders}

\* /sync: SELECT t.id, t.created_at, gt.name ... ORDER BY t.created_at DESC
\* LIMIT 10.
RecentQuery(tx, u) ==
    {[i \in 1..(IF Len(q) < RecentLimit THEN Len(q) ELSE RecentLimit) |->
        [id |-> tx[q[i]].id, created_at |-> tx[q[i]].created_at,
         name |-> SampleNames[tx[q[i]].gift_type_id]]] : q \in SentOrders(tx, u)}

\* router.get('/inventory')
Inventory(s, limit, nu) ==
    /\ Free(s, limit)
    /\ \E u \in Users(nu), o \in Outcomes :
        LET r == [IdleReq EXCEPT !.op = "inventory", !.userId = u, !.pre = Snapshot,
                                 !.pc = "done"]
        IN reqs' = Accept(s, IF o = "throw"
                             THEN [r EXCEPT !.status = 500, !.fault = TRUE,
                                            !.error = "Internal server error"]
                             ELSE [r EXCEPT !.status = 200,
                                            !.body = InventoryQuery(user_gifts, u)])
    /\ UNCHANGED <<active, device_id, user_gifts, transactions, purchases, uuids, clock>>

\* router.get('/sent')
Sent(s, limit, nu) ==
    /\ Free(s, limit)
    /\ \E u \in Users(nu), o \in Outcomes :
       \E sentGifts \in SentQuery(transactions, u) :
        LET r == [IdleReq EXCEPT !.op = "sent", !.userId = u, !.pre = Snapshot,
                                 !.pc = "done"]
        IN reqs' = Accept(s, IF o = "throw"
                             THEN [r EXCEPT !.status = 500, !.fault = TRUE,
                                            !.error = "Internal server error"]
                             ELSE [r EXCEPT !.status = 200, !.body = sentGifts])
    /\ UNCHANGED <<active, device_id, user_gifts, transactions, purchases, uuids, clock>>

\* Mutant: a claim that finds the gift issued marks its transaction as claimed.
ClaimGiftMarks(s, limit) ==
    /\ Free(s, limit)
    /\ \E code \in RedeemCodes, o \in Outcomes :
        LET r == [IdleReq EXCEPT !.op = "claim", !.code = code, !.pre = Snapshot,
                                 !.pc = "done"]
            hit == {k \in 1..Len(transactions) :
                       /\ transactions[k].id = code
                       /\ transactions[k].gift_type_id \in GiftTypeIds}
        IN IF o = "throw"
           THEN /\ reqs' = Accept(s, [r EXCEPT !.status = 500, !.fault = TRUE,
                                               !.error = "Internal server error"])
                /\ transactions' = transactions
           ELSE IF hit = {}
           THEN /\ reqs' = Accept(s, [r EXCEPT !.status = 404,
                                               !.error = "Gift not found"])
                /\ transactions' = transactions
           ELSE LET k == CHOOSE k \in hit : TRUE
                    tr == transactions[k]
                IN IF tr.status = "redeemed"
                   THEN /\ reqs' = Accept(s, [r EXCEPT !.status = 410,
                                                 !.error = "Gift already redeemed"])
                        /\ transactions' = transactions
                   ELSE /\ reqs' = Accept(s, [r EXCEPT !.pc = "qr",
                                                       !.transaction = <<tr>>])
                        /\ transactions' = [transactions EXCEPT ![k].status = "claimed"]
    /\ UNCHANGED <<active, device_id, user_gifts, purchases, uuids, clock>>

\* router.get('/claim/:transactionId'), lines 230-252: the SELECT ... WHERE
\* t.id = ?, run as the request is taken, and the answers 404 and 410; an
\* issued gift goes on to its QR image.
ClaimGift(s, limit) ==
    /\ Free(s, limit)
    /\ \E code \in RedeemCodes, o \in Outcomes :
        LET r == [IdleReq EXCEPT !.op = "claim", !.code = code, !.pre = Snapshot,
                                 !.pc = "done"]
            hit == {k \in 1..Len(transactions) :
                       /\ transactions[k].id = code
                       /\ transactions[k].gift_type_id \in GiftTypeIds}
        IN reqs' = Accept(s,
             IF o = "throw"
             THEN [r EXCEPT !.status = 500, !.fault = TRUE,
                            !.error = "Internal server error"]
             ELSE IF hit = {}
             THEN [r EXCEPT !.status = 404, !.error = "Gift not found"]
             ELSE LET tr == transactions[CHOOSE k \in hit : TRUE] IN
                  IF tr.status = "redeemed"
                  THEN [r EXCEPT !.status = 410, !.error = "Gift already redeemed"]
                  ELSE [r EXCEPT !.pc = "qr", !.transaction = <<tr>>])
    /\ UNCHANGED <<active, device_id, user_gifts, transactions, purchases, uuids, clock>>

\* lines 254-269: await QRCode.toDataURL(transaction.qr_code), then the answer
\* built from the row as it was read.
ClaimAnswer(s) ==
    /\ reqs[s].pc = "qr"
    /\ \E o \in Outcomes :
        reqs' = IF o = "throw" THEN Caught(s, TRUE)
                ELSE LET tr == reqs[s].transaction[1] IN
                     [reqs EXCEPT ![s].pc = "done", ![s].status = 200,
                                  ![s].body = <<[id |-> tr.id,
                                                 name |-> SampleNames[tr.gift_type_id],
                                                 price |-> SamplePrices[tr.gift_type_id],
                                                 sender |-> tr.sender_id,
                                                 qrCode |-> tr.qr_code]>>]
    /\ UNCHANGED <<active, device_id, user_gifts, transactions, purchases, uuids, clock>>

\* router.post('/sync'), lines 284-290: the request is taken and, when it
\* carries a device id, UPDATE users SET device_id = ?.
DeviceIds == {"", "ios-1"}
Sync(s, limit, nu) ==
    /\ Free(s, limit)
    /\ \E u \in Users(nu), d \in DeviceIds, o \in Outcomes :
        LET r == [IdleReq EXCEPT !.op = "sync", !.userId = u, !.deviceId = d,
                                 !.pre = Snapshot, !.pc = "syncInventory"]
        IN IF d # "" /\ o = "throw"
           THEN /\ reqs' = Accept(s, [r EXCEPT !.pc = "done", !.status = 500,
                                               !.fault = TRUE,
                                               !.error = "Internal server error"])
                /\ device_id' = device_id
           ELSE /\ device_id' = IF d # "" THEN [device_id EXCEPT ![u] = d] ELSE device_id
                /\ reqs' = Accept(s, r)
    /\ UNCHANGED <<active, user_gifts, transactions, purchases, uuids, clock>>

\* lines 292-304: the keyboard's inventory.
SyncInventory(s) ==
    /\ reqs[s].pc = "syncInventory"
    /\ \E o \in Outcomes :
        reqs' = IF o = "throw" THEN Caught(s, TRUE)
                ELSE [reqs EXCEPT ![s].pc = "syncRecent",
                                  ![s].inventory = SyncQuery(user_gifts, reqs[s].userId)]
    /\ UNCHANGED <<active, device_id, user_gifts, transactions, purchases, uuids, clock>>

\* lines 306-324: the ten most recent sends, and the answer.
SyncRecent(s) ==
    /\ reqs[s].pc = "syncRecent"
    /\ \E o \in Outcomes, recentSent \in RecentQuery(transactions, reqs[s].userId) :
        reqs' = IF o = "throw" THEN Caught(s, TRUE)
                ELSE [reqs EXCEPT ![s].pc = "done", ![s].status = 200,
                                  ![s].body = <<reqs[s].inventory, recentSent>>]
    /\ UNCHANGED <<active, device_id, user_gifts, transactions, purchases, uuids, clock>>

\* ------------------------------------------------------------ specification
Step(limit, nu, ni, np) ==
    \E s \in Slots :
        \/ PurchaseStart(s, limit, nu, ni, np)
        \/ PurchaseGetGiftType(s)
        \/ PurchaseGetExisting(s)
        \/ PurchaseUpsert(s)
        \/ PurchaseRecord(s)
        \/ SendStart(s, limit, nu)
        \/ SendCheck(s)
        \/ SendGetGiftType(s)
        \/ SendGenerate(s)
        \/ SendInsert(s)
        \/ SendDecrement(s)
        \/ RedeemStart(s, limit)
        \/ Redeem(s)

Query(limit, nu) ==
    \E s \in Slots :
        \/ Inventory(s, limit, nu)
        \/ Sent(s, limit, nu)
        \/ ClaimGift(s, limit)
        \/ ClaimAnswer(s)
        \/ Sync(s, limit, nu)
        \/ SyncInventory(s)
        \/ SyncRecent(s)

\* Requests of one account, handled concurrently.
Next == Step(NumSlots, 1, 1, MaxPurchases)
Spec == Init /\ [][Next]_vars

\* Requests of NumUsers accounts, handled one after another.
SeqNext == Step(1, NumUsers, MaxItems, MaxPurchases)
SeqSpec == Init /\ [][SeqNext]_vars

\* The same with the read handlers and /sync, over single-item purchases.
QueryNext == Step(1, NumUsers, 1, MaxPurchases) \/ Query(1, NumUsers)
QuerySpec == Init /\ [][QueryNext]_vars

\* Purchases and sends of one account, handled concurrently, MaxRepeat
\* purchases, in the executions where no storage statement fails.
NoFailure == \A s \in Slots : ~reqs[s].fault
LedgerNext ==
    \E s \in Slots :
        \/ PurchaseStart(s, NumSlots, 1, 1, MaxRepeat) /\ NoFailure'
        \/ PurchaseGetGiftType(s) /\ NoFailure'
        \/ PurchaseGetExisting(s) /\ NoFailure'
        \/ PurchaseUpsert(s) /\ NoFailure'
        \/ PurchaseRecord(s) /\ NoFailure'
        \/ SendStart(s, NumSlots, 1) /\ NoFailure'
        \/ SendCheck(s) /\ NoFailure'
        \/ SendGetGiftType(s) /\ NoFailure'
        \/ SendGenerate(s) /\ NoFailure'
        \/ SendInsert(s) /\ NoFailure'
        \/ SendDecrement(s) /\ NoFailure'
LedgerSpec == Init /\ [][LedgerNext]_vars

\* Purchases of one account and its two inventory consumers, handled one
\* after another: MaxRepeat purchases of lists of up to MaxItems items.
OrderNext ==
    \E s \in Slots :
        \/ PurchaseStart(s, 1, 1, MaxItems, MaxRepeat)
        \/ PurchaseGetGiftType(s)
        \/ PurchaseGetExisting(s)
        \/ PurchaseUpsert(s)
        \/ PurchaseRecord(s)
        \/ Inventory(s, 1, 1)
        \/ Sync(s, 1, 1)
        \/ SyncInventory(s)
        \/ SyncRecent(s)
OrderSpec == Init /\ [][OrderNext]_vars

\* Purchases, sends and the two account views of NumUsers accounts, handled
\* one after another: MaxRepeat single-item purchases.
AccountsNext ==
    \E s \in Slots :
        \/ PurchaseStart(s, 1, NumUsers, 1, MaxRepeat)
        \/ PurchaseGetGiftType(s)
        \/ PurchaseGetExisting(s)
        \/ PurchaseUpsert(s)
        \/ PurchaseRecord(s)
        \/ SendStart(s, 1, NumUsers)
        \/ SendCheck(s)
        \/ SendGetGiftType(s)
        \/ SendGenerate(s)
        \/ SendInsert(s)
        \/ SendDecrement(s)
        \/ Inventory(s, 1, NumUsers)
        \/ Sent(s, 1, NumUsers)
AccountsSpec == Init /\ [][AccountsNext]_vars

\* Requests of one account and claims and redeems of its gifts, handled
\* concurrently, in the executions where only a claim meets a failure.
OnlyClaimsFail == \A s \in Slots : reqs[s].fault => reqs[s].op = "claim"
ClaimNext ==
    \E s \in Slots :
        \/ PurchaseStart(s, NumSlots, 1, 1, MaxPurchases) /\ OnlyClaimsFail'
        \/ PurchaseGetGiftType(s) /\ OnlyClaimsFail'
        \/ PurchaseGetExisting(s) /\ OnlyClaimsFail'
        \/ PurchaseUpsert(s) /\ OnlyClaimsFail'
        \/ PurchaseRecord(s) /\ OnlyClaimsFail'
        \/ SendStart(s, NumSlots, 1) /\ OnlyClaimsFail'
        \/ SendCheck(s) /\ OnlyClaimsFail'
        \/ SendGetGiftType(s) /\ OnlyClaimsFail'
        \/ SendGenerate(s) /\ OnlyClaimsFail'
        \/ SendInsert(s) /\ OnlyClaimsFail'
        \/ SendDecrement(s) /\ OnlyClaimsFail'
        \/ RedeemStart(s, NumSlots)
        \/ Redeem(s)
        \/ ClaimGift(s, NumSlots)
        \/ ClaimAnswer(s)
ClaimSpec == Init /\ [][ClaimNext]_vars

\* ------------------------------------------------------------------- claims
IsDone(s, op) == reqs[s].pc = "done" /\ reqs[s].op = op
\* Answered without a storage failure.
Clean(s, op) == IsDone(s, op) /\ ~reqs[s].fault
\* The balance of the request's account when the request was received.
PreBalance(s, g) == Balance(reqs[s].pre.user_gifts, reqs[s].userId, g)
NowBalance(s, g) == Balance(user_gifts, reqs[s].userId, g)

\* The units a list of items credits to gift g, and the list's price.
\* An item with a gift type and a number as quantity, and one whose quantity
\* is positive.
WellFormed(item) == DOMAIN item = {"giftTypeId", "quantity"}
Positive(item) == WellFormed(item) /\ item.quantity > 0
Credited(items, g) ==
    SumSeq([i \in 1..Len(items) |->
              IF WellFormed(items[i]) /\ items[i].giftTypeId = g
              THEN items[i].quantity ELSE 0])
TotalOf(items) ==
    SumSeq([i \in 1..Len(items) |->
              IF WellFormed(items[i]) /\ items[i].giftTypeId \in GiftTypeIds
              THEN SamplePrices[items[i].giftTypeId] * items[i].quantity ELSE 0])

\* C1: two concurrent sends of one account for one gift, both received while
\* the balance is exactly 1, never both succeed.
C1_ConcurrentSendsNeverBothSucceed ==
    \A a, b \in Slots :
        ( /\ a # b
          /\ IsDone(a, "send") /\ IsDone(b, "send")
          /\ reqs[a].userId = reqs[b].userId
          /\ reqs[a].giftTypeId = reqs[b].giftTypeId
          /\ PreBalance(a, reqs[a].giftTypeId) = 1
          /\ PreBalance(b, reqs[b].giftTypeId) = 1 )
        => ~(reqs[a].status = 200 /\ reqs[b].status = 200)

PurchaseApplied(s) ==
    /\ \A g \in RequestGiftIds :
          NowBalance(s, g) = PreBalance(s, g) + Credited(reqs[s].items, g)
    /\ purchases = Append(reqs[s].pre.purchases,
                          [id |-> reqs[s].purchaseId, user_id |-> reqs[s].userId,
                           items |-> reqs[s].items,
                           total_amount |-> TotalOf(reqs[s].items)])
PurchaseUntouched(s) ==
    /\ user_gifts = reqs[s].pre.user_gifts
    /\ purchases = reqs[s].pre.purchases
\* C2: a purchase of items with positive quantities, answered without a
\* storage failure, either credited every item and wrote one receipt, or
\* changed no inventory entry and wrote none.
C2_PurchaseAllOrNothing ==
    \A s \in Slots :
        ( /\ Clean(s, "purchase")
          /\ \A i \in 1..Len(reqs[s].items) : Positive(reqs[s].items[i]) ) =>
            IF reqs[s].status = 200 THEN PurchaseApplied(s) ELSE PurchaseUntouched(s)

\* C3: every row of user_gifts has quantity >= 0 in every reachable state.
C3_QuantityNeverNegative ==
    \A k \in 1..Len(user_gifts) : user_gifts[k].quantity >= 0

RaceOn(k) ==
    {s \in Slots : /\ IsDone(s, "redeem")
                   /\ k \in Resolve(reqs[s].pre.transactions, reqs[s].code)
                   /\ reqs[s].pre.transactions[k].status = "sent"}
\* C4: of the redeem calls received while a transaction was still issued,
\* at most one succeeds and every other is answered AlreadyRedeemed; when all
\* NumSlots concurrent calls are such calls, exactly one succeeds; the
\* transaction is redeemed once one of them is answered.
C4_ExactlyOneRedeemWins ==
    \A k \in 1..Len(transactions) :
        LET R == RaceOn(k)
            won == {s \in R : reqs[s].status = 200}
        IN /\ \A s \in R \ won : reqs[s].status = 410 /\ reqs[s].error = "AlreadyRedeemed"
           /\ Cardinality(won) <= 1
           /\ R = Slots => Cardinality(won) = 1
           /\ R # {} => /\ transactions[k].status = "redeemed"
                        /\ transactions[k].redeemed_at # 0
C4_Witness ==
    \E k \in 1..Len(transactions) : RaceOn(k) = Slots

RedeemContract(s) ==
    LET pre == reqs[s].pre.transactions
        hit == Resolve(pre, reqs[s].code)
    IN IF hit = {}
       THEN /\ reqs[s].status = 404 /\ reqs[s].error = "NotFound"
            /\ transactions = pre
       ELSE \A k \in hit :
              IF pre[k].status = "redeemed"
              THEN /\ reqs[s].status = 410 /\ reqs[s].error = "AlreadyRedeemed"
                   /\ transactions = pre
              ELSE /\ reqs[s].status = 200
                   /\ transactions[k].status = "redeemed"
                   /\ transactions[k].redeemed_at # 0
                   /\ transactions =
                        [pre EXCEPT ![k].status = "redeemed",
                                    ![k].redeemed_at = transactions[k].redeemed_at]
RedeemedStays ==
    \A k \in 1..Len(transactions) :
        transactions[k].status = "redeemed" =>
            /\ k <= Len(transactions')
            /\ transactions'[k].status = "redeemed"
            /\ transactions'[k].redeemed_at = transactions[k].redeemed_at
\* C5: a redeem of an issued transaction succeeds and stamps redeemed_at, a
\* redeem of a redeemed one is answered AlreadyRedeemed and changes nothing,
\* a redeem of an unknown code is answered NotFound; and no step of any
\* handler takes a redeemed transaction back or changes its redeemed_at.
C5_RedeemedIsTerminal ==
    /\ [](\A s \in Slots : IsDone(s, "redeem") => RedeemContract(s))
    /\ [][RedeemedStays]_vars
C5_Witness ==
    \E s \in Slots :
        /\ IsDone(s, "redeem") /\ reqs[s].status = 410
        /\ \E k \in Resolve(reqs[s].pre.transactions, reqs[s].code) :
              /\ reqs[s].pre.transactions[k].status = "redeemed"
              /\ transactions[k].redeemed_at = reqs[s].pre.transactions[k].redeemed_at

\* C6: a send received with balance 0 (no entry, or an entry at zero) and
\* answered without a storage failure is refused with 400 and leaves
\* user_gifts and transactions as they were.
C6_SendWithoutBalanceRefused ==
    \A s \in Slots :
        (Clean(s, "send") /\ PreBalance(s, reqs[s].giftTypeId) = 0) =>
            /\ reqs[s].status = 400
            /\ reqs[s].giftTypeId # 0 =>
                  reqs[s].error = "You do not have this gift available"
            /\ user_gifts = reqs[s].pre.user_gifts
            /\ transactions = reqs[s].pre.transactions
C6_Witness ==
    \E s \in Slots :
        /\ Clean(s, "send") /\ reqs[s].status = 400
        /\ PreBalance(s, reqs[s].giftTypeId) = 0
        /\ RowsOf(reqs[s].pre.user_gifts, reqs[s].userId, reqs[s].giftTypeId) # {}

SendApplied(s) ==
    LET g == reqs[s].giftTypeId
        u == reqs[s].userId
        pre == reqs[s].pre
    IN /\ NowBalance(s, g) = PreBalance(s, g) - 1
       /\ Len(user_gifts) = Len(pre.user_gifts)
       /\ \A k \in 1..Len(user_gifts) :
             k \notin RowsOf(pre.user_gifts, u, g) => user_gifts[k] = pre.user_gifts[k]
       /\ transactions = Append(pre.transactions,
                                [id |-> reqs[s].transactionId, sender_id |-> u,
                                 gift_type_id |-> g, status |-> "sent",
                                 qr_code |-> reqs[s].qrCodeData,
                                 created_at |-> transactions[Len(transactions)].created_at,
                                 redeemed_at |-> 0])
       /\ \A j \in 1..Len(pre.transactions) :
             /\ pre.transactions[j].qr_code # reqs[s].qrCodeData
             /\ pre.transactions[j].id # reqs[s].transactionId
\* C7: a send received with balance k >= 1 and answered without a storage
\* failure succeeds, leaves the balance at k - 1 and every other entry as it
\* was, and adds exactly one transaction, issued ('sent'), not redeemed, whose
\* id and redemption code differ from those of every earlier transaction.
C7_SendDebitsOneAndIssues ==
    \A s \in Slots :
        (Clean(s, "send") /\ PreBalance(s, reqs[s].giftTypeId) >= 1) =>
            reqs[s].status = 200 /\ SendApplied(s)
C7_Witness ==
    \E s \in Slots :
        /\ Clean(s, "send") /\ reqs[s].status = 200
        /\ PreBalance(s, reqs[s].giftTypeId) >= 1
        /\ Len(reqs[s].pre.transactions) >= 1
        /\ \E k \in 1..Len(user_gifts) :
              k \notin RowsOf(user_gifts, reqs[s].userId, reqs[s].giftTypeId)

\* C8: an answered send has either both inserted its transaction and debited
\* the unit, or done neither, also when a storage statement failed.
C8_DebitAndTransactionTogether ==
    \A s \in Slots :
        IsDone(s, "send") =>
            \/ /\ transactions = reqs[s].pre.transactions
               /\ user_gifts = reqs[s].pre.user_gifts
            \/ /\ Len(transactions) = Len(reqs[s].pre.transactions) + 1
               /\ NowBalance(s, reqs[s].giftTypeId)
                    = PreBalance(s, reqs[s].giftTypeId) - 1

\* C9: a successful purchase raises the balance of every gift by the sum of
\* the quantities of the items naming it, in a single entry per named gift,
\* and appends exactly one receipt holding the list and its price.
C9_PurchaseCreditsAndReceipts ==
    \A s \in Slots :
        (IsDone(s, "purchase") /\ reqs[s].status = 200) =>
            /\ PurchaseApplied(s)
            /\ \A i \in 1..Len(reqs[s].items) :
                  Cardinality(RowsOf(user_gifts, reqs[s].userId,
                                     reqs[s].items[i].giftTypeId)) = 1
C9_Witness ==
    \E s \in Slots :
        /\ IsDone(s, "purchase") /\ reqs[s].status = 200
        /\ \E i, j \in 1..Len(reqs[s].items) :
              /\ i < j
              /\ reqs[s].items[i].giftTypeId = reqs[s].items[j].giftTypeId
              /\ reqs[s].items[i].quantity > 0 /\ reqs[s].items[j].quantity > 0

InvalidList(items) ==
    \/ Len(items) = 0
    \/ \E i \in 1..Len(items) :
          ~Positive(items[i]) \/ ~ActiveGiftType(items[i].giftTypeId)
\* C10: a purchase whose list is empty, or holds an item with a quantity that
\* is not positive or a gift type that is missing or inactive, is answered 400
\* and writes no receipt.
C10_InvalidListRejected ==
    \A s \in Slots :
        (Clean(s, "purchase") /\ InvalidList(reqs[s].items)) =>
            /\ reqs[s].status = 400
            /\ purchases = reqs[s].pre.purchases



\* The derivations of a code from an identity that need no secret: the
\* identity itself, and the identity behind the application's fixed prefix.
PublicDerivations(id) == {id, <<"CADEAUTJE-">> \o id}
\* C11: the redemption code a send mints is independent of the transaction's
\* identity: no transaction's code is obtained from its identity by a public
\* derivation (and so none yields the identity by undoing one).
C11_CodeIndependentOfIdentity ==
    \A k \in 1..Len(transactions) :
        transactions[k].qr_code \notin PublicDerivations(transactions[k].id)

\* The answer of a claim for the row its transactionId parameter names.
ClaimView(tr) == <<[id |-> tr.id, name |-> SampleNames[tr.gift_type_id],
                    price |-> SamplePrices[tr.gift_type_id],
                    sender |-> tr.sender_id, qrCode |-> tr.qr_code]>>
\* A step of a claim's handler: the slot's record changes into one of a claim.
ClaimStep ==
    \E s \in Slots : reqs'[s].op = "claim" /\ reqs'[s] # reqs[s]
\* C12: no step of a claim changes transactions, user_gifts or purchases,
\* whatever its input and outcome; a claim answered without a storage failure
\* returns the gift and sender of the transaction its query found issued, 410
\* for one it found redeemed and 404 for an identity no transaction had.
C12_ClaimIsReadOnly ==
    /\ [][ClaimStep => UNCHANGED <<transactions, user_gifts, purchases>>]_vars
    /\ [](\A s \in Slots :
            Clean(s, "claim") =>
                LET read == reqs[s].pre.transactions
                    hit == {k \in 1..Len(read) : read[k].id = reqs[s].code}
                IN IF hit = {}
                   THEN reqs[s].status = 404 /\ reqs[s].body = <<>>
                   ELSE \A k \in hit :
                          IF read[k].status = "redeemed"
                          THEN reqs[s].status = 410 /\ reqs[s].body = <<>>
                          ELSE /\ reqs[s].status = 200
                               /\ reqs[s].body = ClaimView(read[k]))
\* A claim answered with the gift it read as issued, after a concurrent redeem.
C12_Witness ==
    /\ \E s \in Slots :
          /\ Clean(s, "claim") /\ reqs[s].status = 200
          /\ \E k \in 1..Len(transactions) :
                transactions[k].id = reqs[s].code /\ transactions[k].status = "redeemed"

\* C13: a claim given the redemption code or the identity of a transaction
\* that send created and that is still issued, answered without a storage
\* failure, returns that transaction's view (never 404).
C13_ClaimByCodeOrIdentity ==
    \A s \in Slots :
        Clean(s, "claim") =>
            \A k \in Resolve(transactions, reqs[s].code) :
                transactions[k].status = "sent" =>
                    /\ reqs[s].status = 200
                    /\ reqs[s].body = ClaimView(transactions[k])

\* The entries of account u with a strictly positive balance.
PositiveEntries(ug, u) ==
    {[gift_type_id |-> ug[k].gift_type_id, quantity |-> ug[k].quantity] :
        k \in {j \in 1..Len(ug) : ug[j].user_id = u /\ ug[j].quantity > 0}}
\* The inventory a consumer of the query was answered with.
InventoryOf(s) == IF reqs[s].op = "sync" THEN reqs[s].body[1] ELSE reqs[s].body
ByCategoryThenName(v) ==
    \A i, j \in 1..Len(v) :
        i < j =>
            \/ CategoryRank[v[i].gift_type_id] < CategoryRank[v[j].gift_type_id]
            \/ /\ CategoryRank[v[i].gift_type_id] = CategoryRank[v[j].gift_type_id]
               /\ NameRank[v[i].gift_type_id] <= NameRank[v[j].gift_type_id]
\* C14: the inventory returned to either consumer, the inventory view and the
\* device sync, holds exactly the account's entries with a strictly positive
\* balance, ordered by category and then name.
C14_InventoryOrderedForBothConsumers ==
    \A s \in Slots :
        ((IsDone(s, "inventory") \/ IsDone(s, "sync")) /\ reqs[s].status = 200) =>
            LET v == InventoryOf(s) IN
            /\ {[gift_type_id |-> v[i].gift_type_id, quantity |-> v[i].quantity] :
                   i \in 1..Len(v)} = PositiveEntries(user_gifts, reqs[s].userId)
            /\ Len(v) = Cardinality(PositiveEntries(user_gifts, reqs[s].userId))
            /\ ByCategoryThenName(v)

AppendOnly ==
    /\ Len(purchases') >= Len(purchases)
    /\ \A k \in 1..Len(purchases) : purchases'[k] = purchases[k]
    /\ Len(user_gifts') >= Len(user_gifts)
    /\ \A k \in 1..Len(user_gifts) :
          /\ user_gifts'[k].user_id = user_gifts[k].user_id
          /\ user_gifts'[k].gift_type_id = user_gifts[k].gift_type_id
    /\ Len(transactions') >= Len(transactions)
    /\ \A k \in 1..Len(transactions) :
          /\ transactions'[k].id = transactions[k].id
          /\ transactions'[k].sender_id = transactions[k].sender_id
          /\ transactions'[k].gift_type_id = transactions[k].gift_type_id
          /\ transactions'[k].qr_code = transactions[k].qr_code
\* C15: no step of any handler changes or removes a receipt, removes an
\* inventory entry or moves it to another account or gift, or removes a
\* transaction or changes its identity, sender, gift or redemption code.
C15_RecordsAppendOnly == [][AppendOnly]_vars
C15_Witness ==
    /\ Len(purchases) >= 1
    /\ \E k \in 1..Len(user_gifts) : user_gifts[k].quantity = 0
    /\ \E k \in 1..Len(transactions) : transactions[k].status = "redeemed"
    /\ \E s \in Slots : IsDone(s, "send") /\ reqs[s].status = 200

BadRequestErrors == {"Items are required", "Invalid gift type",
                     "Gift type ID is required", "You do not have this gift available"}
NotFoundErrors == {"Gift not found", "NotFound"}
GoneErrors == {"Gift already redeemed", "AlreadyRedeemed"}
\* The rows the request's handler looks its code up in: claim by identity,
\* redeem by code or identity.
Looked(s) ==
    IF reqs[s].op = "claim"
    THEN {k \in 1..Len(reqs[s].pre.transactions) :
             reqs[s].pre.transactions[k].id = reqs[s].code}
    ELSE Resolve(reqs[s].pre.transactions, reqs[s].code)
\* What the handler found when it reports the error it reports.
ErrorIsTrue(s) ==
    /\ reqs[s].error = "Items are required" =>
          reqs[s].op = "purchase" /\ reqs[s].items = <<>>
    /\ reqs[s].error = "Invalid gift type" =>
          /\ reqs[s].op = "purchase"
          /\ \E i \in 1..Len(reqs[s].items) :
                /\ reqs[s].items[i] # NullItem
                /\ ~ActiveGiftType(reqs[s].items[i].giftTypeId)
    /\ reqs[s].error = "Gift type ID is required" =>
          reqs[s].op = "send" /\ reqs[s].giftTypeId = 0
    /\ reqs[s].error = "You do not have this gift available" =>
          /\ reqs[s].op = "send"
          /\ \A k \in RowsOf(reqs[s].pre.user_gifts, reqs[s].userId,
                             reqs[s].giftTypeId) :
                reqs[s].pre.user_gifts[k].quantity <= 0
    /\ reqs[s].error \in NotFoundErrors =>
          reqs[s].op \in {"claim", "redeem"} /\ Looked(s) = {}
    /\ reqs[s].error \in GoneErrors =>
          /\ reqs[s].op \in {"claim", "redeem"}
          /\ \E k \in Looked(s) : reqs[s].pre.transactions[k].status = "redeemed"
\* The request is a bad request: an invalid item list, or a send without a
\* unit to send.
BadRequest(s) ==
    \/ reqs[s].op = "purchase" /\ InvalidList(reqs[s].items)
    \/ reqs[s].op = "send" /\ PreBalance(s, reqs[s].giftTypeId) < 1
\* C16: every answer carries the status of its error's category and of no
\* other: 400 for the bad-request errors, 404 for an unknown transaction, 410
\* for a redeemed one, 500 exactly for a storage exception, 200 for none; the
\* error reported is the one the handler met; a bad request answered without
\* a storage exception is answered 400; and a request whose storage statement
\* threw is answered, with 500.
C16_ErrorsKeepTheirCategory ==
    \A s \in Slots :
        /\ reqs[s].fault => reqs[s].pc = "done" /\ reqs[s].status = 500
        /\ reqs[s].pc = "done" =>
              /\ reqs[s].status \in {200, 400, 404, 410, 500}
              /\ reqs[s].status = 200 <=> reqs[s].error = ""
              /\ reqs[s].status = 400 <=> reqs[s].error \in BadRequestErrors
              /\ reqs[s].status = 404 <=> reqs[s].error \in NotFoundErrors
              /\ reqs[s].status = 410 <=> reqs[s].error \in GoneErrors
              /\ reqs[s].status = 500 <=> reqs[s].fault
              /\ reqs[s].status = 500 => reqs[s].error = "Internal server error"
              /\ (BadRequest(s) /\ ~reqs[s].fault) => reqs[s].status = 400
              /\ ErrorIsTrue(s)

SentBy(tx, u, g) ==
    Cardinality({k \in 1..Len(tx) : tx[k].sender_id = u /\ tx[k].gift_type_id = g})
\* The units the line items of account u's receipts credit to gift g.
Receipted(pur, u, g) ==
    SumSeq([k \in 1..Len(pur) |->
              IF pur[k].user_id = u THEN Credited(pur[k].items, g) ELSE 0])
PositiveReceipts ==
    \A k \in 1..Len(purchases) :
        \A i \in 1..Len(purchases[k].items) : purchases[k].items[i].quantity > 0
\* C17: with no storage failure and only positive quantities purchased,
\* whenever no request is being handled, for every account and gift the
\* balance plus the number of transactions the account sent for the gift
\* equals the units its purchase line items credited.
C17_UnitsConserved ==
    (InFlight = {} /\ PositiveReceipts) =>
        \A u \in Users(NumUsers), g \in RequestGiftIds :
            Balance(user_gifts, u, g) + SentBy(transactions, u, g)
                = Receipted(purchases, u, g)

\* C18: user_gifts holds at most one row per (account, gift type) pair.
C18_OneEntryPerPair ==
    \A u \in Users(NumUsers), g \in RequestGiftIds :
        Cardinality(RowsOf(user_gifts, u, g)) <= 1

\* The records of each table that account u does not own.
OthersEntries(ug, u) == LET Other(r) == r.user_id # u IN SelectSeq(ug, Other)
OthersReceipts(pur, u) == LET Other(r) == r.user_id # u IN SelectSeq(pur, Other)
OthersTransactions(tx, u) == LET Other(r) == r.sender_id # u IN SelectSeq(tx, Other)
OwnEntries(ug, u) == LET Own(r) == r.user_id = u IN SelectSeq(ug, Own)
OwnTransactions(tx, u) == LET Own(r) == r.sender_id = u IN SelectSeq(tx, Own)
\* C19: an answered purchase or send of account A, whatever its outcome,
\* leaves the entries, receipts and transactions of every other account as
\* they were (so every record it added is A's); and the inventory and the
\* sent history returned to A are those of A's own records alone.
C19_AccountIsolation ==
    \A s \in Slots :
        LET u == reqs[s].userId
            pre == reqs[s].pre
        IN /\ (IsDone(s, "purchase") \/ IsDone(s, "send")) =>
                /\ OthersEntries(user_gifts, u) = OthersEntries(pre.user_gifts, u)
                /\ OthersReceipts(purchases, u) = OthersReceipts(pre.purchases, u)
                /\ OthersTransactions(transactions, u)
                      = OthersTransactions(pre.transactions, u)
           /\ (IsDone(s, "inventory") /\ reqs[s].status = 200) =>
                /\ reqs[s].body = InventoryQuery(OwnEntries(user_gifts, u), u)
                /\ Len(reqs[s].body) <= Len(OwnEntries(user_gifts, u))
           /\ (IsDone(s, "sent") /\ reqs[s].status = 200) =>
                /\ reqs[s].body \in SentQuery(OwnTransactions(transactions, u), u)
                /\ \A i \in 1..Len(reqs[s].body) :
                      \E k \in 1..Len(transactions) :
                          /\ transactions[k].id = reqs[s].body[i].id
                          /\ transactions[k].sender_id = u
C19_Witness ==
    \E s \in Slots :
        /\ IsDone(s, "send") /\ reqs[s].status = 200
        /\ \E k \in 1..Len(user_gifts) :
              /\ user_gifts[k].user_id # reqs[s].userId
              /\ user_gifts[k].gift_type_id = reqs[s].giftTypeId
              /\ user_gifts[k].quantity > 0
=============================================================================
